---- MODULE Spec2Model ----
(***************************************************************************)
(* Design-Pattern-TS: the pattern examples as state machines.              *)
(*                                                                         *)
(* Each example of the repository is an independent script, so each has    *)
(* its own variables, its own next-state relation and its own              *)
(* specification; a specification leaves the variables of the other        *)
(* examples at their initial values.                                       *)
(***************************************************************************)
EXTENDS Integers, Sequences, FiniteSets, TLC

VARIABLES
  \* Observer (src/unnamed/part_000)
  observers,     \* WeatherStation.observers : sequence of observer references
  data,          \* WeatherStation.data : the stored WeatherData
  updates,       \* the update(data) invocations of the latest notify round
  hist,          \* the calls made on the station so far, oldest first
  \* Strategy (src/Behavioral/Strategy.ts)
  items,         \* Cart.items
  strategy,      \* Cart.strategy
  total,         \* value returned by the latest getTotalPrice call
  cartOps,       \* the calls made on the cart so far, oldest first
  \* Decorator (src/Structural/Decorator.ts)
  orders,        \* for each order variable, its chain of layers, innermost first
  costOut,       \* for each order, what getCost returned on its current object
  descOut,       \* for each order, what getDescription returned
  \* Factory (src/Creational/AbstractFactory.ts, ShapeFactory)
  requested,     \* discriminators passed to createShape, oldest first
  shapes,        \* the shapes createShape returned, in the same order
  console,       \* lines printed by draw(), as <<shape index, text>>
  \* Singleton (src/Creational/AbstractFactory.ts, DatabaseConnection)
  instance,      \* DatabaseConnection.instance : 0 is null, k > 0 the k-th object
  lock,          \* DatabaseConnection.lock
  constructed,   \* number of times the private constructor has run
  objId,         \* id field of each constructed object
  now,           \* Date.now()
  pc,            \* position of each caller inside getInstance
  ret,           \* per caller, the references its getInstance calls returned
  connected,     \* ids printed by connect()
  \* Builder (src/Creational/AbstractFactory.ts, CustomPizzaBuilder)
  size,          \* CustomPizzaBuilder.size
  crust,         \* CustomPizzaBuilder.crust
  sauce,         \* CustomPizzaBuilder.sauce
  toppingsRef,   \* CustomPizzaBuilder.toppings : reference to an array
  arrays,        \* the heap of arrays : reference -> contents
  pizza,         \* the Pizza returned by the latest build(), or NoPizza
  calls,         \* the calls made on the builder so far, oldest first
  \* Observer, a notify round whose callbacks call back into the station
  iter,          \* the forEach in progress: array iterated, length, position
  roundStart,    \* the observer list when the round in progress started
  \* Builder (src/Creational/AbstractFactory.ts, PizzaDirector)
  director,      \* PizzaDirector.pizzaBuilder : << >> before new PizzaDirector()
  margheritas,   \* the pizzas createMargherita returned, oldest first
  \* Facade (src/Structural/Facade.ts, src/unnamed/part_001)
  subsystemCalls, \* the calls received by ac, musicSystem and lights, in order
  facadeOps,     \* the facade operations called so far, oldest first
  \* Abstract Factory (src/Creational/AbstractFactory.ts, UIFactory)
  products,      \* the heap of products: the class of the k-th object built
  created,       \* the createButton / createTextInput calls and what they returned
  rendered,      \* the factories of the Application.render calls, oldest first
  uiOut,         \* the lines printed by render(), in order
  \* Adapter (src/Structural/Adapter.ts)
  gatewayCalls,  \* the calls received by the two gateways, in order
  adapterOps     \* the calls made on the two adapters, oldest first

obsVars     == <<observers, data, updates, hist>>
cartVars    == <<items, strategy, total, cartOps>>
coffeeVars  == <<orders, costOut, descOut>>
shapeVars   == <<requested, shapes, console>>
dbVars      == <<instance, lock, constructed, objId, now, pc, ret, connected>>
builderVars == <<size, crust, sauce, toppingsRef, arrays, pizza, calls>>
roundVars    == <<iter, roundStart>>
directorVars == <<director, margheritas>>
facadeVars   == <<subsystemCalls, facadeOps>>
uiVars       == <<products, created, rendered, uiOut>>
payVars      == <<gatewayCalls, adapterOps>>
vars == <<obsVars, cartVars, coffeeVars, shapeVars, dbVars, builderVars,
          roundVars, directorVars, facadeVars, uiVars, payVars>>

\* what each example leaves alone: the state of the other scripts
newer == <<facadeVars, uiVars, payVars>>
notObserver == <<cartVars, coffeeVars, shapeVars, dbVars, builderVars,
                 roundVars, directorVars, newer>>
notCart     == <<obsVars, coffeeVars, shapeVars, dbVars, builderVars,
                 roundVars, directorVars, newer>>
notCoffee   == <<obsVars, cartVars, shapeVars, dbVars, builderVars,
                 roundVars, directorVars, newer>>
notShape    == <<obsVars, cartVars, coffeeVars, dbVars, builderVars,
                 roundVars, directorVars, newer>>
notDb       == <<obsVars, cartVars, coffeeVars, shapeVars, builderVars,
                 roundVars, directorVars, newer>>
notBuilder  == <<obsVars, cartVars, coffeeVars, shapeVars, dbVars,
                 roundVars, directorVars, newer>>
notRound    == <<cartVars, coffeeVars, shapeVars, dbVars, builderVars,
                 directorVars, newer>>
notPizza    == <<obsVars, cartVars, coffeeVars, shapeVars, dbVars,
                 roundVars, newer>>
notFacade   == <<obsVars, cartVars, coffeeVars, shapeVars, dbVars, builderVars,
                 roundVars, directorVars, uiVars, payVars>>
notUi       == <<obsVars, cartVars, coffeeVars, shapeVars, dbVars, builderVars,
                 roundVars, directorVars, facadeVars, payVars>>
notPay      == <<obsVars, cartVars, coffeeVars, shapeVars, dbVars, builderVars,
                 roundVars, directorVars, facadeVars, uiVars>>

Range(s) == { s[i] : i \in 1..Len(s) }
Last(s)  == s[Len(s)]

(***************************************************************************)
(* Observer: WeatherStation                                                *)
(***************************************************************************)
MaxOps == 5

\* the three observers the driver constructs (object identities)
ObserverRefs == {"temperatureDisplay", "humidityDisplay", "statisticsDisplay"}

\* readings of the driver
WeatherDataSet ==
  { [temperature |-> 35, humidity |-> 20],
    [temperature |-> -5, humidity |-> 15] }

InitialData == [temperature |-> 0, humidity |-> 0]

InitObserver ==
  /\ observers = << >>
  /\ data = InitialData
  /\ updates = << >>
  /\ hist = << >>

\* this.observers.push(observer)
Push(obs, o) == Append(obs, o)

\* a removal by splice(indexOf(o), 1): drops one element, the first o, or
\* the last element when o is absent (indexOf gives -1)
FilterSplice(obs, o) ==
  IF obs = << >> THEN obs
  ELSE IF o \in Range(obs)
       THEN LET k == CHOOSE i \in 1..Len(obs) :
                       obs[i] = o /\ \A j \in 1..(i-1) : obs[j] # o
            IN  SubSeq(obs, 1, k-1) \o SubSeq(obs, k+1, Len(obs))
       ELSE SubSeq(obs, 1, Len(obs) - 1)

\* this.observers.filter((obs) => obs !== observer)
Filter(obs, o) == SelectSeq(obs, LAMBDA x : x # o)

\* a notify that hands every observer the reading stored before the call
NotifyStale(obs, d) ==
  [i \in 1..Len(obs) |-> [observer |-> obs[i], data |-> data]]

\* this.observers.forEach((observer) => observer.update(this.data)):
\* the update invocations, in call order
Notify(obs, d) ==
  [i \in 1..Len(obs) |-> [observer |-> obs[i], data |-> d]]

subscribe(o) ==
  /\ Len(hist) < MaxOps
  /\ observers' = Push(observers, o)
  /\ hist' = Append(hist, [op |-> "subscribe", arg |-> o])
  /\ UNCHANGED <<data, updates, notObserver>>

unsubscribe(o) ==
  /\ Len(hist) < MaxOps
  /\ observers' = Filter(observers, o)
  /\ hist' = Append(hist, [op |-> "unsubscribe", arg |-> o])
  /\ UNCHANGED <<data, updates, notObserver>>

setWeatherData(d) ==
  /\ Len(hist) < MaxOps
  /\ data' = d
  /\ updates' = Notify(observers, data')
  /\ hist' = Append(hist, [op |-> "setWeatherData", arg |-> d])
  /\ UNCHANGED <<observers, notObserver>>

NextObserver ==
  \/ \E o \in ObserverRefs : subscribe(o)
  \/ \E o \in ObserverRefs : unsubscribe(o)
  \/ \E d \in WeatherDataSet : setWeatherData(d)

\* --- what the call history says, independently of the station's list ---

\* the elements of h at the indices in S, in increasing index order
Pick(h, S) ==
  [k \in 1..Cardinality(S) |->
     h[CHOOSE i \in S : Cardinality({j \in S : j < i}) = k - 1]]

\* indices of the subscribe calls not followed by an unsubscribe of the same
\* observer
LiveSubscriptions(h) ==
  { i \in 1..Len(h) :
      /\ h[i].op = "subscribe"
      /\ \A j \in (i+1)..Len(h) :
            ~(h[j].op = "unsubscribe" /\ h[j].arg = h[i].arg) }

\* the observers of the live subscriptions, in subscription order
Subscribed(h) ==
  LET live == Pick(h, LiveSubscriptions(h))
  IN  [k \in 1..Len(live) |-> live[k].arg]

\* o has been unsubscribed and not subscribed again since
Removed(o, h) ==
  \E i \in 1..Len(h) :
    /\ h[i].op = "unsubscribe" /\ h[i].arg = o
    /\ \A j \in (i+1)..Len(h) : ~(h[j].op = "subscribe" /\ h[j].arg = o)

OnlySubscribes(h) == \A i \in 1..Len(h) : h[i].op = "subscribe"

JustSet == hist # << >> /\ Last(hist).op = "setWeatherData"

Notified == [i \in 1..Len(updates) |-> updates[i].observer]

\* C1: one setWeatherData(d) call makes exactly one update invocation per
\* entry of the observer list (an observer subscribed twice is called twice),
\* each with the new value d, in the order the subscriptions were made.
ThmC1 ==
  JustSet =>
    /\ Len(updates) = Len(observers)
    /\ \A i \in 1..Len(updates) :
          /\ updates[i].observer = observers[i]
          /\ updates[i].data = Last(hist).arg
    /\ OnlySubscribes(SubSeq(hist, 1, Len(hist) - 1)) =>
          /\ Len(updates) = Len(hist) - 1
          /\ \A i \in 1..Len(updates) : updates[i].observer = hist[i].arg

\* a round over three subscriptions, one observer subscribed twice
WitC1 ==
  /\ JustSet
  /\ Len(hist) = 4
  /\ OnlySubscribes(SubSeq(hist, 1, 3))
  /\ Cardinality(Range(observers)) = 2
  /\ Len(updates) = 3

\* C2: after unsubscribe(o), a setWeatherData call invokes update on all
\* remaining subscribers in their original relative order and never on o,
\* until o is subscribed again, however often o had been subscribed.
ThmC2 ==
  JustSet =>
    /\ \A o \in ObserverRefs :
          Removed(o, hist) => o \notin Range(Notified)
    /\ Notified = Subscribed(hist)

\* o subscribed twice, another observer subscribed in between, o removed,
\* then a round that reaches the other observer
WitC2 ==
  /\ JustSet
  /\ \E o \in ObserverRefs :
        /\ Removed(o, hist)
        /\ Cardinality({i \in 1..Len(hist) :
                          hist[i].op = "subscribe" /\ hist[i].arg = o}) = 2
  /\ Len(updates) = 1

\* C3: unsubscribe(o) of an observer that is not in the list completes and
\* leaves the observer list (contents and order) and the stored data as
\* they were.
ThmC3 ==
  [][\A o \in ObserverRefs :
       (/\ Len(hist') = Len(hist) + 1
        /\ Last(hist').op = "unsubscribe"
        /\ Last(hist').arg = o
        /\ o \notin Range(observers))
       => (observers' = observers /\ data' = data /\ updates' = updates)]_vars

\* the latest call removed an observer that was not subscribed, from a
\* list holding two others
WitC3 ==
  /\ hist # << >>
  /\ Last(hist).op = "unsubscribe"
  /\ Last(hist).arg \notin Range(Subscribed(SubSeq(hist, 1, Len(hist) - 1)))
  /\ Len(observers) = 2

(***************************************************************************)
(* Observer: a notify round whose update callbacks call subscribe or       *)
(* unsubscribe on the station                                              *)
(***************************************************************************)

\* no forEach in progress
NoRound == [active |-> FALSE, arr |-> << >>, len |-> 0, k |-> 1, shared |-> FALSE]

InitRound ==
  /\ iter = NoRound
  /\ roundStart = << >>

\* a loop that tests the array's current length before every element
\* (for (i = 0; i < observers.length; i++))
VisitBoundLive(arr, len) == Len(arr)

\* Array.prototype.forEach visits the indices below the length the array
\* had when forEach was called; elements pushed later are not visited
VisitBound(arr, len) == len

\* setWeatherData(d) up to the call of forEach: this.data = data, then
\* notify() starts iterating the array this.observers refers to
beginRound(d) ==
  /\ ~iter.active
  /\ Len(hist) < MaxOps
  /\ data' = d
  /\ iter' = [active |-> TRUE, arr |-> observers, len |-> Len(observers),
              k |-> 1, shared |-> TRUE]
  /\ roundStart' = observers
  /\ updates' = << >>
  /\ hist' = Append(hist, [op |-> "setWeatherData", arg |-> d])
  /\ UNCHANGED <<observers, notRound>>

\* forEach calls observer.update(this.data) for the next element
visit ==
  /\ iter.active
  /\ iter.k <= VisitBound(iter.arr, iter.len)
  /\ updates' = Append(updates, [observer |-> iter.arr[iter.k], data |-> data])
  /\ iter' = [iter EXCEPT !.k = @ + 1]
  /\ UNCHANGED <<observers, data, hist, roundStart, notRound>>

\* an update callback calls station.subscribe(o): push changes the array
\* this.observers refers to in place, which is the array being iterated
\* unless an unsubscribe has replaced it
subscribeInUpdate(o) ==
  /\ iter.active
  /\ iter.k > 1
  /\ Len(hist) < MaxOps
  /\ observers' = Push(observers, o)
  /\ iter' = [iter EXCEPT !.arr = IF iter.shared THEN Push(@, o) ELSE @]
  /\ hist' = Append(hist, [op |-> "subscribe", arg |-> o])
  /\ UNCHANGED <<data, updates, roundStart, notRound>>

\* an update callback calls station.unsubscribe(o): filter makes a new
\* array and this.observers is set to it; the array being iterated is left
\* as it is
unsubscribeInUpdate(o) ==
  /\ iter.active
  /\ iter.k > 1
  /\ Len(hist) < MaxOps
  /\ observers' = Filter(observers, o)
  /\ iter' = [iter EXCEPT !.shared = FALSE]
  /\ hist' = Append(hist, [op |-> "unsubscribe", arg |-> o])
  /\ UNCHANGED <<data, updates, roundStart, notRound>>

\* forEach, notify and setWeatherData return
endRound ==
  /\ iter.active
  /\ iter.k > VisitBound(iter.arr, iter.len)
  /\ iter' = [iter EXCEPT !.active = FALSE]
  /\ UNCHANGED <<obsVars, roundStart, notRound>>

NextRound ==
  \/ \E o \in ObserverRefs : ~iter.active /\ subscribe(o)
  \/ \E o \in ObserverRefs : ~iter.active /\ unsubscribe(o)
  \/ \E d \in WeatherDataSet : beginRound(d)
  \/ visit
  \/ \E o \in ObserverRefs : subscribeInUpdate(o)
  \/ \E o \in ObserverRefs : unsubscribeInUpdate(o)
  \/ endRound

\* index of the latest setWeatherData call, 0 if there is none
LatestSet ==
  IF \E i \in 1..Len(hist) : hist[i].op = "setWeatherData"
  THEN CHOOSE i \in 1..Len(hist) :
         /\ hist[i].op = "setWeatherData"
         /\ \A j \in (i+1)..Len(hist) : hist[j].op # "setWeatherData"
  ELSE 0

\* the live subscriptions when the latest round started: every subscribe
\* and unsubscribe made before it counts, those made inside earlier rounds
\* included
RoundList == Subscribed(SubSeq(hist, 1, LatestSet))

\* the latest round is over
RoundDone == ~iter.active /\ LatestSet > 0

\* a subscribe or unsubscribe was made inside the latest round
ChangedInRound == LatestSet > 0 /\ LatestSet < Len(hist)

\* number of update invocations o received in the latest round
Received(o) == Cardinality({i \in 1..Len(updates) : updates[i].observer = o})

\* C15 as stated: when update callbacks subscribe or unsubscribe during a
\* round, every observer that was in the list when the round started
\* receives exactly one update, none added during the round is notified in
\* it, and the change takes effect from the next setWeatherData call.
CexC15 ==
  (RoundDone /\ ChangedInRound) =>
    /\ \A o \in Range(RoundList) : Received(o) = 1
    /\ \A o \in ObserverRefs \ Range(RoundList) : Received(o) = 0

\* C15, amended: the round notifies the entries the list had when it
\* started, one update per entry in list order (an observer subscribed
\* twice receives two), whatever the callbacks subscribe or unsubscribe
\* meanwhile; those calls change the list the next round starts from.
ThmC15 ==
  /\ observers = Subscribed(hist)
  /\ LatestSet > 0 =>
        /\ roundStart = RoundList
        /\ Len(updates) <= Len(RoundList)
        /\ Notified = SubSeq(RoundList, 1, Len(updates))
        /\ \A i \in 1..Len(updates) : updates[i].data = hist[LatestSet].arg
  /\ RoundDone => Len(updates) = Len(RoundList)

\* a finished round over two observers during which, before the second was
\* visited, it was unsubscribed and a third one subscribed
WitC15 ==
  /\ RoundDone
  /\ Len(hist) = 5
  /\ LatestSet = 3
  /\ Len(RoundList) = 2
  /\ hist[4].op = "unsubscribe" /\ hist[4].arg = RoundList[2]
  /\ hist[5].op = "subscribe" /\ hist[5].arg \notin Range(RoundList)
  /\ Len(updates) = 2

(***************************************************************************)
(* Strategy: Cart                                                          *)
(***************************************************************************)
MaxCartOps == 5

\* the divisor of PercentageDiscountStrategy.doDiscount; amounts of money
\* are kept in units of 1/Hundred so that the quotient is exact
Hundred == 100

\* new NoDiscountStrategy(), new FlatDiscountStrategy(10),
\* new PercentageDiscountStrategy(10)
Strategies ==
  { [kind |-> "NoDiscount", param |-> 0],
    [kind |-> "FlatDiscount", param |-> 10],
    [kind |-> "PercentageDiscount", param |-> 10] }

\* the items of the driver
ItemSet ==
  { [name |-> "Shirt", price |-> 20, quantity |-> 2],
    [name |-> "Jeans", price |-> 50, quantity |-> 1] }

\* Strategy.doDiscount of the three strategy classes; price and result in
\* units of 1/Hundred.  price * (1 - rate / 100) is computed exactly (the
\* rounding of the double arithmetic is not modelled).
doDiscount(s, price) ==
  CASE s.kind = "NoDiscount" -> price
    [] s.kind = "FlatDiscount" -> price - s.param * Hundred
    [] s.kind = "PercentageDiscount" -> (price * (Hundred - s.param)) \div Hundred

\* let total = 0; this.items.forEach((item) => total += item.price * item.quantity)
RECURSIVE SumItems(_)
SumItems(its) ==
  IF its = << >> THEN 0
  ELSE SumItems(SubSeq(its, 1, Len(its) - 1))
         + Last(its).price * Last(its).quantity * Hundred

\* const cart = new Cart(new NoDiscountStrategy())
InitCart ==
  /\ items = << >>
  /\ strategy = [kind |-> "NoDiscount", param |-> 0]
  /\ total = << >>
  /\ cartOps = << [op |-> "new", arg |-> strategy] >>

addItem(item) ==
  /\ Len(cartOps) <= MaxCartOps
  /\ items' = Append(items, item)
  /\ cartOps' = Append(cartOps, [op |-> "addItem", arg |-> item])
  /\ UNCHANGED <<strategy, total, notCart>>

setDiscountStrategy(s) ==
  /\ Len(cartOps) <= MaxCartOps
  /\ strategy' = s
  /\ cartOps' = Append(cartOps, [op |-> "setDiscountStrategy", arg |-> s])
  /\ UNCHANGED <<items, total, notCart>>

\* a getTotalPrice that returns the total it computed before, if any
getTotalPriceCached ==
  /\ Len(cartOps) <= MaxCartOps
  /\ total' = IF total = << >>
              THEN << doDiscount(strategy, SumItems(items)) >>
              ELSE total
  /\ cartOps' = Append(cartOps, [op |-> "getTotalPrice", arg |-> strategy])
  /\ UNCHANGED <<items, strategy, notCart>>

getTotalPrice ==
  /\ Len(cartOps) <= MaxCartOps
  /\ total' = << doDiscount(strategy, SumItems(items)) >>
  /\ cartOps' = Append(cartOps, [op |-> "getTotalPrice", arg |-> strategy])
  /\ UNCHANGED <<items, strategy, notCart>>

NextCart ==
  \/ \E item \in ItemSet : addItem(item)
  \/ \E s \in Strategies : setDiscountStrategy(s)
  \/ getTotalPrice

\* --- what the call history says ---

\* index of the latest call that chose a strategy (the constructor is call 1)
LatestChoice(h) ==
  CHOOSE i \in 1..Len(h) :
    /\ h[i].op \in {"new", "setDiscountStrategy"}
    /\ \A j \in (i+1)..Len(h) : h[j].op \notin {"new", "setDiscountStrategy"}

\* price * quantity of the k-th call if it added an item, else 0
Added(h, k) ==
  IF h[k].op = "addItem" THEN h[k].arg.price * h[k].arg.quantity ELSE 0

\* sum of price * quantity over the items added so far
AddedSum(h) ==
  LET acc[k \in 0..Len(h)] == IF k = 0 THEN 0 ELSE acc[k-1] + Added(h, k)
  IN  acc[Len(h)]

\* the discounted amount, in units of 1/Hundred, written out per strategy
Discounted(s, sum) ==
  IF s.kind = "NoDiscount" THEN Hundred * sum
  ELSE IF s.kind = "FlatDiscount" THEN Hundred * (sum - s.param)
  ELSE sum * (Hundred - s.param)

JustPriced == Last(cartOps).op = "getTotalPrice"

MaxLayers == 3

\* PlainCoffee.getCost
PlainCost == 100
\* the increments of MilkDecorator, SugarDecorator, CaramelDecorator
MilkCost    == 50
SugarCost   == 20
CaramelCost == 100

\* the concrete decorator classes
Layers == {"Milk", "Sugar", "Caramel"}

\* the order variables of the driver
OrderVars == {"order1", "order2"}

\* a CaramelDecorator whose getCost was copied from MilkDecorator
LayerCostCopied(layer) ==
  CASE layer = "Milk" -> MilkCost
    [] layer = "Sugar" -> SugarCost
    [] layer = "Caramel" -> MilkCost

\* what each decorator's getCost adds to this.coffee.getCost()
LayerCost(layer) ==
  CASE layer = "Milk" -> MilkCost
    [] layer = "Sugar" -> SugarCost
    [] layer = "Caramel" -> CaramelCost

\* a CaramelDecorator whose getDescription was copied from MilkDecorator
LayerSuffixCopied(layer) ==
  CASE layer = "Milk" -> " Milk"
    [] layer = "Sugar" -> " Sugar"
    [] layer = "Caramel" -> " Milk"

\* what each decorator's getDescription appends to
\* this.coffee.getDescription()
LayerSuffix(layer) ==
  CASE layer = "Milk" -> " Milk"
    [] layer = "Sugar" -> " Sugar"
    [] layer = "Caramel" -> " Caramel"

\* A coffee object is the sequence of its layers, innermost first: << >> is
\* a PlainCoffee, Append(c, l) is new <l>Decorator(c).
RECURSIVE getCost(_)
getCost(coffee) ==
  IF coffee = << >> THEN PlainCost
  ELSE getCost(SubSeq(coffee, 1, Len(coffee) - 1)) + LayerCost(Last(coffee))

RECURSIVE getDescription(_)
getDescription(coffee) ==
  IF coffee = << >> THEN "Plain Coffee"
  ELSE getDescription(SubSeq(coffee, 1, Len(coffee) - 1))
         \o LayerSuffix(Last(coffee))

\* const order = new PlainCoffee(), for each order variable
InitCoffee ==
  /\ orders = [v \in OrderVars |-> << >>]
  /\ costOut = [v \in OrderVars |-> << >>]
  /\ descOut = [v \in OrderVars |-> << >>]

\* v = new <layer>Decorator(v): a new object, not yet asked anything
Wrap(v, layer) ==
  /\ Len(orders[v]) < MaxLayers
  /\ orders' = [orders EXCEPT ![v] = Append(@, layer)]
  /\ costOut' = [costOut EXCEPT ![v] = << >>]
  /\ descOut' = [descOut EXCEPT ![v] = << >>]
  /\ UNCHANGED notCoffee

\* v.getCost()
CallGetCost(v) ==
  /\ costOut[v] = << >>
  /\ costOut' = [costOut EXCEPT ![v] = << getCost(orders[v]) >>]
  /\ UNCHANGED <<orders, descOut, notCoffee>>

\* v.getDescription()
CallGetDescription(v) ==
  /\ descOut[v] = << >>
  /\ descOut' = [descOut EXCEPT ![v] = << getDescription(orders[v]) >>]
  /\ UNCHANGED <<orders, costOut, notCoffee>>

NextCoffee ==
  \/ \E v \in OrderVars, layer \in Layers : Wrap(v, layer)
  \/ \E v \in OrderVars : CallGetCost(v)
  \/ \E v \in OrderVars : CallGetDescription(v)

\* number of layers of a kind in a chain
Count(coffee, layer) == Cardinality({i \in 1..Len(coffee) : coffee[i] = layer})

\* the same layers, each the same number of times
SameLayers(c1, c2) == \A layer \in Layers : Count(c1, layer) = Count(c2, layer)

\* C5: getCost of the outermost layer is 100 plus the increments of all
\* layers (Milk 50, Sugar 20, Caramel 100), hence equal for every
\* permutation of the same layers.
ThmC5 ==
  /\ \A v \in OrderVars :
        costOut[v] # << >> =>
          costOut[v][1] = 100 + 50 * Count(orders[v], "Milk")
                              + 20 * Count(orders[v], "Sugar")
                              + 100 * Count(orders[v], "Caramel")
  /\ \A v, w \in OrderVars :
        (costOut[v] # << >> /\ costOut[w] # << >>
           /\ SameLayers(orders[v], orders[w]))
        => costOut[v] = costOut[w]

\* Milk and Sugar wrapped in the two orders, both costing 170
WitC5 ==
  /\ orders["order1"] = <<"Milk", "Sugar">>
  /\ orders["order2"] = <<"Sugar", "Milk">>
  /\ costOut["order1"] = <<170>>
  /\ costOut["order2"] = <<170>>

\* "Plain Coffee" followed by " <layer>" for the first n layers of a chain
Described(coffee) ==
  LET d[n \in 0..Len(coffee)] ==
        IF n = 0 THEN "Plain Coffee" ELSE d[n-1] \o " " \o coffee[n]
  IN  d[Len(coffee)]

\* C6: getDescription of the outermost layer is "Plain Coffee" followed by
\* each layer's suffix, innermost first and outermost last; chains of the
\* same layers in a different nesting order have different descriptions.
ThmC6 ==
  /\ \A v \in OrderVars :
        descOut[v] # << >> => descOut[v][1] = Described(orders[v])
  /\ \A v, w \in OrderVars :
        (descOut[v] # << >> /\ descOut[w] # << >>
           /\ SameLayers(orders[v], orders[w]) /\ orders[v] # orders[w])
        => descOut[v] # descOut[w]

\* the driver's order1 next to the same layers nested the other way round
WitC6 ==
  /\ orders["order1"] = <<"Milk", "Sugar">>
  /\ descOut["order1"] = <<"Plain Coffee Milk Sugar">>
  /\ orders["order2"] = <<"Sugar", "Milk">>
  /\ descOut["order2"] = <<"Plain Coffee Sugar Milk">>

(***************************************************************************)
(* Factory: ShapeFactory                                                   *)
(***************************************************************************)
MaxShapes == 2
MaxLines  == 2

\* discriminators: the three known ones and strings that match no case
TypeInputs == {"Circle", "Rectangle", "Square", "Triangle", "circle", ""}

\* a default branch that returns a Square
createShapeDefaultSquare(type) ==
  CASE type = "Circle" -> "Circle"
    [] type = "Rectangle" -> "Rectangle"
    [] type = "Square" -> "Square"
    [] OTHER -> "Square"

\* ShapeFactory.createShape: the class of the object it returns
createShape(type) ==
  CASE type = "Circle" -> "Circle"
    [] type = "Rectangle" -> "Rectangle"
    [] type = "Square" -> "Square"
    [] OTHER -> "Circle"

\* the line draw() of each class prints
draw(shape) ==
  CASE shape = "Circle" -> "Drawing circle."
    [] shape = "Rectangle" -> "Drawing rectangle."
    [] shape = "Square" -> "Drawing square."

InitShape ==
  /\ requested = << >>
  /\ shapes = << >>
  /\ console = << >>

\* const s = factory.createShape(type)
CallCreateShape(type) ==
  /\ Len(requested) < MaxShapes
  /\ requested' = Append(requested, type)
  /\ shapes' = Append(shapes, createShape(type))
  /\ UNCHANGED <<console, notShape>>

\* s.draw(), s the i-th shape created
CallDraw(i) ==
  /\ Len(console) < MaxLines
  /\ console' = Append(console, [shape |-> i, text |-> draw(shapes[i])])
  /\ UNCHANGED <<requested, shapes, notShape>>

NextShape ==
  \/ \E type \in TypeInputs : CallCreateShape(type)
  \/ \E i \in 1..Len(shapes) : CallDraw(i)

\* C7: for "Circle", "Rectangle" and "Square" the returned shape draws the
\* text of that discriminator; for any other string createShape returns
\* without error and the shape draws "Drawing circle.".
ThmC7 ==
  /\ Len(shapes) = Len(requested)
  /\ \A k \in 1..Len(console) :
        LET type == requested[console[k].shape]
            text == console[k].text
        IN  /\ type = "Circle" => text = "Drawing circle."
            /\ type = "Rectangle" => text = "Drawing rectangle."
            /\ type = "Square" => text = "Drawing square."
            /\ type \notin {"Circle", "Rectangle", "Square"}
                 => text = "Drawing circle."

\* a known discriminator and an unknown one both created and drawn
WitC7 ==
  /\ Len(console) = 2
  /\ requested[console[1].shape] = "Square"
  /\ requested[console[2].shape] \notin {"Circle", "Rectangle", "Square"}

(***************************************************************************)
(* Singleton: DatabaseConnection                                           *)
(***************************************************************************)
NumCallers == 2
MaxCalls   == 2
MaxNow     == 2
MaxPrinted == 2

Callers == 1..NumCallers

\* the null reference; the k-th constructed object is the reference k
Null == 0

InitDb ==
  /\ instance = Null
  /\ lock = FALSE
  /\ constructed = 0
  /\ objId = << >>
  /\ now = 0
  /\ pc = [p \in Callers |-> "idle"]
  /\ ret = [p \in Callers |-> << >>]
  /\ connected = << >>

\* time passes: Date.now() grows
Tick ==
  /\ now < MaxNow
  /\ now' = now + 1
  /\ UNCHANGED <<instance, lock, constructed, objId, pc, ret, connected, notDb>>

\* ref.connect(), ref the i-th reference caller p got: prints the id
connect(p, i) ==
  /\ Len(connected) < MaxPrinted
  /\ ret[p][i] # Null
  /\ connected' = Append(connected, objId[ret[p][i]])
  /\ UNCHANGED <<instance, lock, constructed, objId, now, pc, ret, notDb>>

\* a getInstance that guards construction with neither test
getInstanceUnguarded(p) ==
  /\ \A q \in Callers : pc[q] = "idle"
  /\ Len(ret[p]) < MaxCalls
  /\ lock' = TRUE
  /\ constructed' = constructed + 1
  /\ objId' = Append(objId, now)
  /\ instance' = constructed + 1
  /\ ret' = [ret EXCEPT ![p] = Append(@, instance')]
  /\ UNCHANGED <<now, pc, connected, notDb>>

\* DatabaseConnection.getInstance run from call to return without another
\* caller in between (the sequential run of the script)
getInstance(p) ==
  /\ \A q \in Callers : pc[q] = "idle"
  /\ Len(ret[p]) < MaxCalls
  /\ IF instance = Null
     THEN IF ~lock
          THEN /\ lock' = TRUE
               /\ constructed' = constructed + 1
               /\ objId' = Append(objId, now)
               /\ instance' = constructed + 1
          ELSE UNCHANGED <<lock, constructed, objId, instance>>
     ELSE UNCHANGED <<lock, constructed, objId, instance>>
  /\ ret' = [ret EXCEPT ![p] = Append(@, instance')]
  /\ UNCHANGED <<now, pc, connected, notDb>>

\* --- getInstance as the steps several callers can interleave ---

\* a caller enters getInstance
Enter(p) ==
  /\ pc[p] = "idle"
  /\ Len(ret[p]) < MaxCalls
  /\ pc' = [pc EXCEPT ![p] = "readInstance"]
  /\ UNCHANGED <<instance, lock, constructed, objId, now, ret, connected, notDb>>

\* if (this.instance === null)
ReadInstance(p) ==
  /\ pc[p] = "readInstance"
  /\ pc' = [pc EXCEPT ![p] = IF instance = Null THEN "readLock" ELSE "return"]
  /\ UNCHANGED <<instance, lock, constructed, objId, now, ret, connected, notDb>>

\* if (!this.lock)
ReadLock(p) ==
  /\ pc[p] = "readLock"
  /\ pc' = [pc EXCEPT ![p] = IF ~lock THEN "setLock" ELSE "return"]
  /\ UNCHANGED <<instance, lock, constructed, objId, now, ret, connected, notDb>>

\* this.lock = true
SetLock(p) ==
  /\ pc[p] = "setLock"
  /\ lock' = TRUE
  /\ pc' = [pc EXCEPT ![p] = "construct"]
  /\ UNCHANGED <<instance, constructed, objId, now, ret, connected, notDb>>

\* this.instance = new DatabaseConnection()
Construct(p) ==
  /\ pc[p] = "construct"
  /\ constructed' = constructed + 1
  /\ objId' = Append(objId, now)
  /\ instance' = constructed + 1
  /\ pc' = [pc EXCEPT ![p] = "return"]
  /\ UNCHANGED <<lock, now, ret, connected, notDb>>

\* return this.instance!
Return(p) ==
  /\ pc[p] = "return"
  /\ ret' = [ret EXCEPT ![p] = Append(@, instance)]
  /\ pc' = [pc EXCEPT ![p] = "idle"]
  /\ UNCHANGED <<instance, lock, constructed, objId, now, connected, notDb>>

NextDbSequential ==
  \/ Tick
  \/ \E p \in Callers : getInstance(p)
  \/ \E p \in Callers : \E i \in 1..Len(ret[p]) : connect(p, i)

NextDbInterleaved ==
  \/ Tick
  \/ \E p \in Callers : Enter(p)
  \/ \E p \in Callers : ReadInstance(p)
  \/ \E p \in Callers : ReadLock(p)
  \/ \E p \in Callers : SetLock(p)
  \/ \E p \in Callers : Construct(p)
  \/ \E p \in Callers : Return(p)
  \/ \E p \in Callers : \E i \in 1..Len(ret[p]) : connect(p, i)

\* every reference any getInstance call has returned
Returned == UNION { Range(ret[p]) : p \in Callers }

\* C8: in a sequential run every getInstance call returns the same
\* instance, the constructor runs exactly once, on the first call, and once
\* instance is set it is never reset or replaced.
ThmC8 ==
  [][/\ instance # Null => instance' = instance
     /\ Returned' # {} => (constructed' = 1 /\ Returned' = {instance'}
                            /\ instance' # Null)
     /\ constructed' # constructed => (constructed = 0 /\ Returned = {})
     /\ Returned' = {} => constructed' = 0]_vars

\* calls by both callers, the later ones after time has passed, all got the
\* one object
WitC8 ==
  /\ \A p \in Callers : Len(ret[p]) = MaxCalls
  /\ now > objId[1]
  /\ constructed = 1
  /\ connected # << >>

\* C9: the constructor runs at most once also when the steps of several
\* getInstance calls interleave in any order.
CexC9 == constructed <= 1

\* C16: every getInstance call returns a non-null instance, also when the
\* steps of several calls interleave.
CexC16 == Null \notin Returned

(***************************************************************************)
(* Builder: CustomPizzaBuilder                                             *)
(***************************************************************************)
MaxBuilderCalls == 6

\* the arguments of the driver's calls
Sizes      == {"Large"}
Crusts     == {"Thin"}
Sauces     == {"Spicy"}
ToppingSet == {"Cheese", "Pepperoni"}

\* new CustomPizzaBuilder(): the field initialisers; toppings refers to a
\* fresh empty array, the first of the heap
InitBuilder ==
  /\ size = "regular"
  /\ crust = "thin"
  /\ toppingsRef = 1
  /\ arrays = << << >> >>
  /\ sauce = "tomato"
  /\ pizza = << >>
  /\ calls = << >>

setSize(s) ==
  /\ Len(calls) < MaxBuilderCalls
  /\ size' = s
  /\ calls' = Append(calls, [op |-> "setSize", arg |-> s])
  /\ UNCHANGED <<crust, sauce, toppingsRef, arrays, pizza, notBuilder>>

setCrust(c) ==
  /\ Len(calls) < MaxBuilderCalls
  /\ crust' = c
  /\ calls' = Append(calls, [op |-> "setCrust", arg |-> c])
  /\ UNCHANGED <<size, sauce, toppingsRef, arrays, pizza, notBuilder>>

\* an addTopping that puts the topping at the front (unshift)
addToppingUnshift(t) ==
  /\ Len(calls) < MaxBuilderCalls
  /\ arrays' = [arrays EXCEPT ![toppingsRef] = <<t>> \o @]
  /\ calls' = Append(calls, [op |-> "addTopping", arg |-> t])
  /\ UNCHANGED <<size, crust, sauce, toppingsRef, pizza, notBuilder>>

\* this.toppings.push(topping): the array is changed in place
addTopping(t) ==
  /\ Len(calls) < MaxBuilderCalls
  /\ arrays' = [arrays EXCEPT ![toppingsRef] = Append(@, t)]
  /\ calls' = Append(calls, [op |-> "addTopping", arg |-> t])
  /\ UNCHANGED <<size, crust, sauce, toppingsRef, pizza, notBuilder>>

setSauce(s) ==
  /\ Len(calls) < MaxBuilderCalls
  /\ sauce' = s
  /\ calls' = Append(calls, [op |-> "setSauce", arg |-> s])
  /\ UNCHANGED <<size, crust, toppingsRef, arrays, pizza, notBuilder>>

\* new Pizza(this.size, this.crust, this.toppings, this.sauce): the pizza
\* holds the builder's array reference, not a copy
build ==
  /\ Len(calls) < MaxBuilderCalls
  /\ pizza' = << [size |-> size, crust |-> crust,
                  toppings |-> toppingsRef, sauce |-> sauce] >>
  /\ calls' = Append(calls, [op |-> "build", arg |-> ""])
  /\ UNCHANGED <<size, crust, sauce, toppingsRef, arrays, notBuilder>>

NextBuilder ==
  \/ \E s \in Sizes : setSize(s)
  \/ \E c \in Crusts : setCrust(c)
  \/ \E t \in ToppingSet : addTopping(t)
  \/ \E s \in Sauces : setSauce(s)
  \/ build

\* the five setter calls of the scenario
ScenarioCalls ==
  { [op |-> "setSize", arg |-> "Large"],
    [op |-> "setCrust", arg |-> "Thin"],
    [op |-> "addTopping", arg |-> "Cheese"],
    [op |-> "addTopping", arg |-> "Pepperoni"],
    [op |-> "setSauce", arg |-> "Spicy"] }

\* on a fresh builder: the five calls, each once, in some order, then build()
Scenario ==
  /\ Len(calls) = 6
  /\ \A c \in ScenarioCalls : \E i \in 1..5 : calls[i] = c
  /\ calls[6].op = "build"

\* position of a call in the history
Position(c) == CHOOSE i \in 1..Len(calls) : calls[i] = c

CheeseFirst ==
  Position([op |-> "addTopping", arg |-> "Cheese"])
    < Position([op |-> "addTopping", arg |-> "Pepperoni"])

\* the fields of the pizza build() returned, its toppings read through the
\* reference
Built ==
  [size |-> pizza[1].size, crust |-> pizza[1].crust,
   toppings |-> arrays[pizza[1].toppings], sauce |-> pizza[1].sauce]

\* the latest call is the one given
Called(op, arg) == calls' = Append(calls, [op |-> op, arg |-> arg])

\* each setter writes its own field and leaves the other three alone
FrameC10 ==
  /\ \A s \in Sizes : Called("setSize", s) =>
        size' = s /\ UNCHANGED <<crust, arrays, toppingsRef, sauce>>
  /\ \A c \in Crusts : Called("setCrust", c) =>
        crust' = c /\ UNCHANGED <<size, arrays, toppingsRef, sauce>>
  /\ \A s \in Sauces : Called("setSauce", s) =>
        sauce' = s /\ UNCHANGED <<size, crust, arrays, toppingsRef>>
  /\ \A t \in ToppingSet : Called("addTopping", t) =>
        /\ arrays'[toppingsRef] = Append(arrays[toppingsRef], t)
        /\ UNCHANGED <<size, crust, toppingsRef, sauce>>

\* C10 as stated: the five calls in any order, then build(), yield size
\* "Large", crust "Thin", toppings ["Cheese","Pepperoni"], sauce "Spicy".
CexC10 ==
  Scenario =>
    Built = [size |-> "Large", crust |-> "Thin",
             toppings |-> <<"Cheese", "Pepperoni">>, sauce |-> "Spicy"]

\* the result of the scenario: toppings in the order of the addTopping calls
ResultC10 ==
  Scenario =>
    Built = [size |-> "Large", crust |-> "Thin",
             toppings |-> IF CheeseFirst THEN <<"Cheese", "Pepperoni">>
                                         ELSE <<"Pepperoni", "Cheese">>,
             sauce |-> "Spicy"]

\* C10, amended: each setter changes only its own field, and the five calls
\* in any order, then build(), yield size "Large", crust "Thin", sauce
\* "Spicy" and the toppings in the order of the two addTopping calls:
\* ["Cheese","Pepperoni"] exactly when addTopping("Cheese") came first.
ThmC10 == [][FrameC10 /\ ResultC10']_vars

\* the scenario in an order other than the driver's, Cheese before Pepperoni
WitC10 ==
  /\ Scenario
  /\ CheeseFirst
  /\ calls[1].op = "setSauce"
  /\ calls[5].op = "setSize"
  /\ Built.toppings = <<"Cheese", "Pepperoni">>

(***************************************************************************)
(* Builder: PizzaDirector                                                  *)
(***************************************************************************)
MaxMargheritas == 2

InitDirector ==
  /\ director = << >>
  /\ margheritas = << >>

\* const director = new PizzaDirector(): pizzaBuilder = new
\* CustomPizzaBuilder(), whose toppings is a fresh empty array
newDirector ==
  /\ director = << >>
  /\ director' = << [size |-> "regular", crust |-> "thin",
                     toppings |-> Len(arrays) + 1, sauce |-> "tomato"] >>
  /\ arrays' = Append(arrays, << >>)
  /\ UNCHANGED <<size, crust, sauce, toppingsRef, pizza, calls, margheritas,
                 notPizza>>

\* director.createMargherita(): setCrust("Thin"), setSauce("Marinara"),
\* addTopping("Cheese"), addTopping("Basil"), setSize("Large"), build() on
\* the director's one builder
createMargherita ==
  /\ director # << >>
  /\ Len(margheritas) < MaxMargheritas
  /\ LET b == director[1]
         built == [size |-> "Large", crust |-> "Thin",
                   toppings |-> b.toppings, sauce |-> "Marinara"]
     IN  /\ arrays' = [arrays EXCEPT ![b.toppings] = @ \o <<"Cheese", "Basil">>]
         /\ director' = << built >>
         /\ margheritas' = Append(margheritas, built)
  /\ UNCHANGED <<size, crust, sauce, toppingsRef, pizza, calls, notPizza>>

NextDirector ==
  \/ newDirector
  \/ createMargherita

NextPizza ==
  \/ NextBuilder
  \/ NextDirector

\* the fields of the i-th pizza createMargherita returned, its toppings read
\* through the reference
Margherita(i) ==
  [size |-> margheritas[i].size, crust |-> margheritas[i].crust,
   toppings |-> arrays[margheritas[i].toppings], sauce |-> margheritas[i].sauce]

\* C14: a Pizza returned by build() is fixed once built: no later call on
\* the same builder changes its size, crust, toppings or sauce; and every
\* createMargherita call, a second one on the same director included,
\* returns toppings exactly ["Cheese","Basil"].
CexC14 ==
  [][/\ (pizza # << >> /\ pizza' = pizza) => Built' = Built
     /\ \A i \in 1..Len(margheritas) : Margherita(i)' = Margherita(i)
     /\ \A i \in 1..Len(margheritas') :
           Margherita(i)' = [size |-> "Large", crust |-> "Thin",
                             toppings |-> <<"Cheese", "Basil">>,
                             sauce |-> "Marinara"]]_vars

(***************************************************************************)
(* Facade: HomeAutomationFacade                                            *)
(***************************************************************************)
MaxFacadeOps == 4

\* the arguments setMovieMode passes on
MovieTemperature == 22
MovieDimLevel    == 30

\* a call on a subsystem; level and song are 0 and "" where the method
\* takes no such argument
Call(target, method, level, song) ==
  [target |-> target, method |-> method, level |-> level, song |-> song]

\* a setMovieMode that starts the music before it dims the lights
MovieModeCallsMusicFirst ==
  << Call("ac", "setTemperature", MovieTemperature, ""),
     Call("musicSystem", "play", 0, "Relaxing song"),
     Call("lights", "dim", MovieDimLevel, "") >>

\* the bodies of the three facade operations: the subsystem calls, in
\* statement order
TurnOnCalls ==
  << Call("ac", "turnOn", 0, ""),
     Call("musicSystem", "turnOn", 0, ""),
     Call("lights", "turnOn", 0, "") >>

TurnOffCalls ==
  << Call("ac", "turnOff", 0, ""),
     Call("musicSystem", "turnOff", 0, ""),
     Call("lights", "turnOff", 0, "") >>

MovieModeCalls ==
  << Call("ac", "setTemperature", MovieTemperature, ""),
     Call("lights", "dim", MovieDimLevel, ""),
     Call("musicSystem", "play", 0, "Relaxing song") >>

\* new HomeAutomationFacade(ac, musicSystem, lights)
InitFacade ==
  /\ subsystemCalls = << >>
  /\ facadeOps = << >>

turnOn ==
  /\ Len(facadeOps) < MaxFacadeOps
  /\ subsystemCalls' = subsystemCalls \o TurnOnCalls
  /\ facadeOps' = Append(facadeOps, "turnOn")
  /\ UNCHANGED notFacade

turnOff ==
  /\ Len(facadeOps) < MaxFacadeOps
  /\ subsystemCalls' = subsystemCalls \o TurnOffCalls
  /\ facadeOps' = Append(facadeOps, "turnOff")
  /\ UNCHANGED notFacade

setMovieMode ==
  /\ Len(facadeOps) < MaxFacadeOps
  /\ subsystemCalls' = subsystemCalls \o MovieModeCalls
  /\ facadeOps' = Append(facadeOps, "setMovieMode")
  /\ UNCHANGED notFacade

NextFacade ==
  \/ turnOn
  \/ turnOff
  \/ setMovieMode

\* the j-th subsystem call (j in 1..3) a facade operation is to make
Expected(op, j) ==
  IF op = "turnOn"
  THEN Call(<<"ac", "musicSystem", "lights">>[j], "turnOn", 0, "")
  ELSE IF op = "turnOff"
  THEN Call(<<"ac", "musicSystem", "lights">>[j], "turnOff", 0, "")
  ELSE << Call("ac", "setTemperature", 22, ""),
          Call("lights", "dim", 30, ""),
          Call("musicSystem", "play", 0, "Relaxing song") >>[j]

\* C11: each facade operation makes its three subsystem calls in its fixed
\* order, nothing skipped, repeated or reordered, whatever was called
\* before: turnOn ac, musicSystem, lights; turnOff likewise; setMovieMode
\* ac.setTemperature(22), lights.dim(30), musicSystem.play("Relaxing song").
ThmC11 ==
  /\ Len(subsystemCalls) = 3 * Len(facadeOps)
  /\ \A i \in 1..Len(facadeOps) : \A j \in 1..3 :
        subsystemCalls[3 * (i - 1) + j] = Expected(facadeOps[i], j)

\* the driver's three operations, then setMovieMode once more
WitC11 ==
  /\ facadeOps = <<"turnOn", "setMovieMode", "turnOff", "setMovieMode">>
  /\ Len(subsystemCalls) = 12

(***************************************************************************)
(* Abstract Factory: UIFactory                                             *)
(***************************************************************************)
MaxProducts == 4

\* the concrete factories
Factories == {"DarkThemeFactory", "LightThemeFactory", "HighContrastFactory"}

\* createButton of each factory: the class it instantiates
createButton(f) ==
  CASE f = "DarkThemeFactory" -> "DarkButton"
    [] f = "LightThemeFactory" -> "LightButton"
    [] f = "HighContrastFactory" -> "HighContrastButton"

\* a LightThemeFactory whose createTextInput was copied from DarkThemeFactory
createTextInputCopied(f) ==
  CASE f = "DarkThemeFactory" -> "DarkTextInput"
    [] f = "LightThemeFactory" -> "DarkTextInput"
    [] f = "HighContrastFactory" -> "HighContrastTextInput"

\* createTextInput of each factory: the class it instantiates
createTextInput(f) ==
  CASE f = "DarkThemeFactory" -> "DarkTextInput"
    [] f = "LightThemeFactory" -> "LightTextInput"
    [] f = "HighContrastFactory" -> "HighContrastTextInput"

\* the line render() of each product class prints
render(class) ==
  CASE class = "DarkButton" -> "Render Dark button"
    [] class = "DarkTextInput" -> "Render Dark text input"
    [] class = "LightButton" -> "Render Light button"
    [] class = "LightTextInput" -> "Render Light text input"
    [] class = "HighContrastButton" -> "Render High Contrast button"
    [] class = "HighContrastTextInput" -> "Render High Contrast text input"

InitUi ==
  /\ products = << >>
  /\ created = << >>
  /\ rendered = << >>
  /\ uiOut = << >>

\* the reference of the object the next `new` makes
NewRef(heap) == Len(heap) + 1

\* factory.createButton()
CallCreateButton(f) ==
  /\ Len(products) < MaxProducts
  /\ products' = Append(products, createButton(f))
  /\ created' = Append(created, [factory |-> f, method |-> "createButton",
                                 ref |-> NewRef(products)])
  /\ UNCHANGED <<rendered, uiOut, notUi>>

\* factory.createTextInput()
CallCreateTextInput(f) ==
  /\ Len(products) < MaxProducts
  /\ products' = Append(products, createTextInput(f))
  /\ created' = Append(created, [factory |-> f, method |-> "createTextInput",
                                 ref |-> NewRef(products)])
  /\ UNCHANGED <<rendered, uiOut, notUi>>

\* new Application(f).render():
\*   this.factory.createButton().render();
\*   this.factory.createTextInput().render();
ApplicationRender(f) ==
  /\ Len(products) + 2 <= MaxProducts
  /\ products' = products \o << createButton(f), createTextInput(f) >>
  /\ created' = created \o
       << [factory |-> f, method |-> "createButton", ref |-> NewRef(products)],
          [factory |-> f, method |-> "createTextInput",
           ref |-> NewRef(products) + 1] >>
  /\ uiOut' = uiOut \o << render(createButton(f)), render(createTextInput(f)) >>
  /\ rendered' = Append(rendered, f)
  /\ UNCHANGED notUi

NextUi ==
  \/ \E f \in Factories : CallCreateButton(f)
  \/ \E f \in Factories : CallCreateTextInput(f)
  \/ \E f \in Factories : ApplicationRender(f)

\* the family a product class belongs to, and the word its lines carry
FamilyOf(class) ==
  IF class \in {"DarkButton", "DarkTextInput"} THEN "DarkThemeFactory"
  ELSE IF class \in {"LightButton", "LightTextInput"} THEN "LightThemeFactory"
  ELSE "HighContrastFactory"

ThemeWord(f) ==
  IF f = "DarkThemeFactory" THEN "Dark"
  ELSE IF f = "LightThemeFactory" THEN "Light"
  ELSE "High Contrast"

IsButton(class) == class \in {"DarkButton", "LightButton", "HighContrastButton"}

\* C12: createButton and createTextInput of a factory return products of
\* that factory's theme, each call a newly constructed instance, and
\* Application.render prints the button line then the text-input line of
\* the same theme.
ThmC12 ==
  /\ \A i \in 1..Len(created) :
        /\ FamilyOf(products[created[i].ref]) = created[i].factory
        /\ IsButton(products[created[i].ref])
              <=> created[i].method = "createButton"
        /\ \A j \in 1..Len(created) :
              i # j => created[i].ref # created[j].ref
  /\ Len(uiOut) = 2 * Len(rendered)
  /\ \A k \in 1..Len(rendered) :
        /\ uiOut[2 * k - 1] = "Render " \o ThemeWord(rendered[k]) \o " button"
        /\ uiOut[2 * k] = "Render " \o ThemeWord(rendered[k]) \o " text input"

\* two applications of different themes rendered, the Light one second
WitC12 ==
  /\ rendered = <<"HighContrastFactory", "LightThemeFactory">>
  /\ Len(created) = 4
  /\ uiOut[4] = "Render Light text input"

(***************************************************************************)
(* Adapter: LegacyPaymentAdapter, ModernPaymentAdapter                     *)
(***************************************************************************)
MaxAdapterOps == 3

\* the two adapters of the driver
Adapters == {"legacyPaymentAdapter", "modernPaymentAdapter"}

\* the amounts of the driver
Amounts == {123, 30}

\* the gateway each adapter's constructor stored
Adaptee(adapter) ==
  CASE adapter = "legacyPaymentAdapter" -> "legacyPaymentGateway"
    [] adapter = "modernPaymentAdapter" -> "modernPaymentGateway"

\* the gateway call made by processPayment(amount) of each adapter class
processPaymentCall(adapter, amount) ==
  CASE adapter = "legacyPaymentAdapter" ->
         [gateway |-> Adaptee(adapter), method |-> "makePayment", amount |-> amount]
    [] adapter = "modernPaymentAdapter" ->
         [gateway |-> Adaptee(adapter), method |-> "pay", amount |-> amount]

\* a ModernPaymentAdapter whose refundPayment was copied from processPayment
refundPaymentCallCopied(adapter, amount) ==
  CASE adapter = "legacyPaymentAdapter" ->
         [gateway |-> Adaptee(adapter), method |-> "cancelPayment", amount |-> amount]
    [] adapter = "modernPaymentAdapter" ->
         [gateway |-> Adaptee(adapter), method |-> "pay", amount |-> amount]

\* the gateway call made by refundPayment(amount) of each adapter class
refundPaymentCall(adapter, amount) ==
  CASE adapter = "legacyPaymentAdapter" ->
         [gateway |-> Adaptee(adapter), method |-> "cancelPayment", amount |-> amount]
    [] adapter = "modernPaymentAdapter" ->
         [gateway |-> Adaptee(adapter), method |-> "reverse", amount |-> amount]

InitPay ==
  /\ gatewayCalls = << >>
  /\ adapterOps = << >>

processPayment(adapter, amount) ==
  /\ Len(adapterOps) < MaxAdapterOps
  /\ gatewayCalls' = Append(gatewayCalls, processPaymentCall(adapter, amount))
  /\ adapterOps' = Append(adapterOps, [adapter |-> adapter,
                                       op |-> "processPayment", amount |-> amount])
  /\ UNCHANGED notPay

refundPayment(adapter, amount) ==
  /\ Len(adapterOps) < MaxAdapterOps
  /\ gatewayCalls' = Append(gatewayCalls, refundPaymentCall(adapter, amount))
  /\ adapterOps' = Append(adapterOps, [adapter |-> adapter,
                                       op |-> "refundPayment", amount |-> amount])
  /\ UNCHANGED notPay

NextPay ==
  \/ \E adapter \in Adapters, amount \in Amounts : processPayment(adapter, amount)
  \/ \E adapter \in Adapters, amount \in Amounts : refundPayment(adapter, amount)

\* the adaptee operation an adapter call is to end in
Delegate(adapter, op) ==
  IF adapter = "legacyPaymentAdapter"
  THEN IF op = "processPayment" THEN "makePayment" ELSE "cancelPayment"
  ELSE IF op = "processPayment" THEN "pay" ELSE "reverse"

\* C13: processPayment(a) makes exactly one call of the wrapped gateway's
\* pay operation (makePayment for legacy, pay for modern) with amount a,
\* refundPayment(a) exactly one call of its refund operation (cancelPayment
\* for legacy, reverse for modern) with amount a; no call reaches the other
\* gateway.
ThmC13 ==
  /\ Len(gatewayCalls) = Len(adapterOps)
  /\ \A i \in 1..Len(adapterOps) :
        /\ gatewayCalls[i].method = Delegate(adapterOps[i].adapter, adapterOps[i].op)
        /\ gatewayCalls[i].amount = adapterOps[i].amount
        /\ gatewayCalls[i].gateway =
              IF adapterOps[i].adapter = "legacyPaymentAdapter"
              THEN "legacyPaymentGateway" ELSE "modernPaymentGateway"

\* a legacy payment, a legacy refund of another amount and a modern refund
WitC13 ==
  /\ Len(adapterOps) = 3
  /\ adapterOps[1] = [adapter |-> "legacyPaymentAdapter",
                       op |-> "processPayment", amount |-> 123]
  /\ adapterOps[2] = [adapter |-> "legacyPaymentAdapter",
                       op |-> "refundPayment", amount |-> 30]
  /\ adapterOps[3].adapter = "modernPaymentAdapter"
  /\ adapterOps[3].op = "refundPayment"
  /\ gatewayCalls[3].method = "reverse"

Init ==
  /\ InitObserver
  /\ InitCart
  /\ InitCoffee
  /\ InitShape
  /\ InitDb
  /\ InitBuilder
  /\ InitFacade
  /\ InitDirector
  /\ InitRound
  /\ InitUi
  /\ InitPay

SpecObserver == Init /\ [][NextObserver]_vars
SpecRound    == Init /\ [][NextRound]_vars
SpecCart     == Init /\ [][NextCart]_vars
SpecCoffee   == Init /\ [][NextCoffee]_vars
SpecShape    == Init /\ [][NextShape]_vars
SpecDbSequential  == Init /\ [][NextDbSequential]_vars
SpecDbInterleaved == Init /\ [][NextDbInterleaved]_vars
SpecBuilder       == Init /\ [][NextBuilder]_vars
SpecPizza         == Init /\ [][NextPizza]_vars
SpecFacade        == Init /\ [][NextFacade]_vars
SpecUi            == Init /\ [][NextUi]_vars
SpecPay           == Init /\ [][NextPay]_vars

====
